---- MODULE Spec2Model ----
(***************************************************************************)
(* Model of the plugin packager in build.py: the gitignore-style pattern   *)
(* compiler (GitIgnorePattern), the ordered ignore set                     *)
(* (PluginBuilder.should_ignore), the tree copy (build_plugin), the        *)
(* dependency step (build_dependencies, _cleanup_lib_directory) and the    *)
(* sequencing done by main.                                                *)
(*                                                                         *)
(* Text is modelled by TLA+ strings; Ch(s, i) is the i-th character.       *)
(* re.escape and re.match are the ones of Python 3.7 and later, where      *)
(* re.escape leaves "/" alone.                                             *)
(***************************************************************************)
EXTENDS Integers, Sequences, FiniteSets, TLC

\* ------------------------------------------------------------------ text

Ch(s, i) == SubSeq(s, i, i)

startswith(s, prefix) ==
    /\ Len(prefix) <= Len(s)
    /\ SubSeq(s, 1, Len(prefix)) = prefix

endswith(s, suffix) ==
    /\ Len(suffix) <= Len(s)
    /\ SubSeq(s, Len(s) - Len(suffix) + 1, Len(s)) = suffix

\* str.replace(old, new): leftmost, non-overlapping occurrences.
RECURSIVE replace(_, _, _)
replace(s, old, new) ==
    IF s = "" THEN ""
    ELSE IF startswith(s, old)
         THEN new \o replace(SubSeq(s, Len(old) + 1, Len(s)), old, new)
         ELSE Ch(s, 1) \o replace(Tail(s), old, new)

\* str.rstrip('/')
RECURSIVE rstrip_slash(_)
rstrip_slash(s) ==
    IF s # "" /\ Ch(s, Len(s)) = "/"
    THEN rstrip_slash(SubSeq(s, 1, Len(s) - 1))
    ELSE s

\* The characters str.strip() removes that occur in the model's rule lines.
Whitespace == {" ", "\t", "\n", "\r"}

RECURSIVE lstrip(_)
lstrip(s) ==
    IF s # "" /\ Ch(s, 1) \in Whitespace THEN lstrip(Tail(s)) ELSE s

RECURSIVE rstrip(_)
rstrip(s) ==
    IF s # "" /\ Ch(s, Len(s)) \in Whitespace
    THEN rstrip(SubSeq(s, 1, Len(s) - 1))
    ELSE s

strip(s) == rstrip(lstrip(s))

\* ------------------------------------------------------------ the regex

\* The characters re.escape puts a backslash before.
ReSpecial ==
    {"(", ")", "[", "]", "{", "}", "?", "*", "+", "-", "|", "^", "$", "\\",
     ".", "&", "~", "#", " ", "\t", "\n", "\r"}

RECURSIVE re_escape(_)
re_escape(s) ==
    IF s = "" THEN ""
    ELSE (IF Ch(s, 1) \in ReSpecial THEN "\\" \o Ch(s, 1) ELSE Ch(s, 1))
         \o re_escape(Tail(s))

\* re.match(regex, path) for the regular expressions _convert_pattern_to_regex
\* builds: "^", "$", the optional groups "(...)?", ".*", "[^/]", "[^/]*",
\* escaped characters and plain characters.  ReAccepts(r, p, i, j) holds when
\* r from its i-th character on matches p from its j-th character on; a match
\* need not reach the end of p.  "." is every character but the line feed,
\* "[^/]" every character but "/", and "$" is the end of p or the place
\* before a line feed that ends p.
RECURSIVE ReAccepts(_, _, _, _)
ReAccepts(r, p, i, j) ==
    IF i > Len(r) THEN TRUE
    ELSE LET c == Ch(r, i)
             more == j <= Len(p)
             star(width) == Ch(r, i + width) = "*"
         IN CASE c = "^" -> j = 1 /\ ReAccepts(r, p, i + 1, j)
              [] c = "$" ->
                   /\ \/ j = Len(p) + 1
                      \/ j = Len(p) /\ Ch(p, j) = "\n"
                   /\ ReAccepts(r, p, i + 1, j)
              [] c = "\\" ->
                   /\ more
                   /\ Ch(p, j) = Ch(r, i + 1)
                   /\ ReAccepts(r, p, i + 2, j + 1)
              [] c = "(" ->
                   LET close == CHOOSE k \in i..Len(r) :
                                  /\ Ch(r, k) = ")"
                                  /\ \A m \in i..(k - 1) : Ch(r, m) # ")"
                   IN \/ ReAccepts(r, p, i + 1, j)
                      \/ ReAccepts(r, p, close + 2, j)
              [] c = ")" -> ReAccepts(r, p, i + 2, j)
              [] c = "." ->
                   \/ ReAccepts(r, p, i + 2, j)
                   \/ more /\ Ch(p, j) # "\n" /\ ReAccepts(r, p, i, j + 1)
              [] c = "[" ->
                   IF star(4)
                   THEN \/ ReAccepts(r, p, i + 5, j)
                        \/ more /\ Ch(p, j) # "/" /\ ReAccepts(r, p, i, j + 1)
                   ELSE more /\ Ch(p, j) # "/" /\ ReAccepts(r, p, i + 4, j + 1)
              [] OTHER ->
                   more /\ Ch(p, j) = c /\ ReAccepts(r, p, i + 1, j + 1)

re_match(regex, path) == ReAccepts(regex, path, 1, 1)

\* ---------------------------------------------------- GitIgnorePattern

\* _convert_pattern_to_regex without its first two lines, the return of ""
\* for an empty pattern.
ConvertWithoutEmptyCheck(pattern) ==
    LET escaped == re_escape(pattern)
        q == replace(escaped, "\\?", "[^/]")
        dstar == replace(q, "\\*\\*", ".*")
        sstar == replace(dstar, "\\*", "[^/]*")
        anchored == IF ~startswith(sstar, "/")
                    THEN "(.*/)?" \o sstar
                    ELSE Tail(sstar)
    IN "^" \o anchored \o "(/.*)?$"

_convert_pattern_to_regex(pattern) ==
    IF pattern = "" THEN ""
    ELSE LET escaped == re_escape(pattern)
             q == replace(escaped, "\\?", "[^/]")
             dstar == replace(q, "\\*\\*", ".*")
             sstar == replace(dstar, "\\*", "[^/]*")
             anchored == IF ~startswith(sstar, "/")
                         THEN "(.*/)?" \o sstar
                         ELSE Tail(sstar)
         IN "^" \o anchored \o "(/.*)?$"

GitIgnorePattern(pattern) ==
    LET is_negation == startswith(pattern, "!")
        body == IF is_negation THEN Tail(pattern) ELSE pattern
    IN [pattern |-> pattern,
        is_dir_only |-> endswith(pattern, "/"),
        is_negation |-> is_negation,
        regex |-> _convert_pattern_to_regex(rstrip_slash(body))]

\* The body of matches: the path is normalised and re.match decides.
regex_matches(regex, path) ==
    LET fwd == replace(path, "\\", "/")
        rel == IF startswith(fwd, "/") THEN Tail(fwd) ELSE fwd
    IN re_match(regex, rel)

\* -------------------------------------------------------------- bounds

\* The longest ignore-rule list the matcher is queried with.
MaxRules == 2

\* The longest generated path the matcher is queried with.
MaxPathLen == 3

\* The number of successive invocations of main on the same source tree.
MaxRuns == 2

\* ---------------------------------------------------------------- paths

\* os.sep of the platform the plugin directory is on.
OsSep == "\\"

\* os.path.join of the names of a relative path.
RECURSIVE os_join(_)
os_join(names) ==
    IF names = <<>> THEN ""
    ELSE IF Len(names) = 1 THEN names[1]
    ELSE names[1] \o OsSep \o os_join(Tail(names))

dirname(path) == SubSeq(path, 1, Len(path) - 1)

IsUnder(path, dir) ==
    /\ Len(path) > Len(dir)
    /\ SubSeq(path, 1, Len(dir)) = dir

IsChild(path, dir) == IsUnder(path, dir) /\ Len(path) = Len(dir) + 1

\* The directories os.makedirs(path, exist_ok=True) makes sure of.
Ancestors(path) == {SubSeq(path, 1, k) : k \in 1..Len(path)}

\* Every order a directory listing can come in.
Orders(S) ==
    {o \in [1..Cardinality(S) -> S] : \A i, j \in DOMAIN o : i # j => o[i] # o[j]}

\* --------------------------------------------------------------- inputs

NoTree == [exists |-> FALSE, dirs |-> {}, files |-> {}]

default_patterns ==
    <<"build_plugin.py", "plugin_builder.log", "setup.py", "publish.py",
      "build.py", "deploy.py", ".git/", ".gitignore", ".github/",
      ".gitattributes", ".gitlab/", ".gitlab-ci.yml", "LICENSE",
      "LICENSE.txt", "LICENSE.md", "CHANGELOG.md", "CONTRIBUTING.md",
      "CODE_OF_CONDUCT.md", "README.md", "__pycache__/", "*.pyc", "*.pyo",
      "*.pyd", ".pytest_cache/", ".coverage", "htmlcov/", ".tox/", ".venv/",
      "venv/", ".env/", "env/", ".idea/", ".vs/", ".vscode/", "*.suo",
      "*.user", "*.sln", "*.swp", "*.sublime-*", ".DS_Store", "Thumbs.db",
      "desktop.ini", "tests/", "test/", "*_test.py", "*_tests.py",
      "test_*.py", "tests_*.py", "requirements-dev.txt",
      "dev-requirements.txt", "requirements_dev.txt",
      "requirements_test.txt", "tox.ini", "mypy.ini", ".flake8", ".pylintrc",
      ".pre-commit-config.yaml">>

\* The patterns the loop over the file's lines appends for these lines.
RECURSIVE UserPatterns(_)
UserPatterns(lines) ==
    IF lines = <<>> THEN <<>>
    ELSE LET line == strip(Head(lines))
         IN (IF line # "" /\ ~startswith(line, "#")
             THEN <<GitIgnorePattern(line)>>
             ELSE <<>>) \o UserPatterns(Tail(lines))

\* The plugin.json documents the invocations start from.
Manifests ==
    {[kind |-> "missing", keys |-> {}], [kind |-> "malformed", keys |-> {}],
     [kind |-> "scalar", keys |-> {}]}
    \cup {[kind |-> "object", keys |-> k] :
            k \in SUBSET {"Name", "Version"}}
    \cup {[kind |-> "array", keys |-> k] : k \in {{"Name"}, {"Name", "Version"}}}

NoGitignore == [exists |-> FALSE, lines |-> <<>>]

\* The .gitignore files the invocations start from.
GitignoreFiles ==
    {NoGitignore,
     [exists |-> TRUE,
      lines |-> <<"# build output\n", "\n", "build/\n", "!build/keep.txt\n">>],
     [exists |-> TRUE, lines |-> <<"*.log\n", "  !important.log  \n">>],
     [exists |-> TRUE, lines |-> <<"!README.md\n", "/a\n">>]}

\* The source trees the invocations start from, without plugin.json and
\* .gitignore.
SourceTrees ==
    {[dirs |-> {<<"build">>, <<".git">>},
      files |-> {<<"main.py">>, <<"build", "keep.txt">>, <<"build", "out.bin">>,
                 <<"important.log">>, <<"other.log">>, <<".git", "config">>}],
     [dirs |-> {<<"lib">>, <<"tests">>, <<"assets">>},
      files |-> {<<"requirements.txt">>, <<"main.py">>, <<"lib", "helper.py">>,
                 <<"tests", "test_x.py">>, <<"assets", "logo.png">>,
                 <<"test_main.py">>}],
     [dirs |-> {<<"docs">>, <<"a">>, <<"a", "build">>, <<"src">>},
      files |-> {<<"requirements.txt">>, <<"README.md">>,
                 <<"a", "build", "keep.txt">>, <<"src", "app.py">>,
                 <<"src", "run.log">>}]}

\* The source directory: plugin.json and .gitignore are files of it.
SourceOf(base, m, g) ==
    [dirs |-> base.dirs,
     files |-> base.files
               \cup (IF m.kind # "missing" THEN {<<"plugin.json">>} ELSE {})
               \cup (IF g.exists THEN {<<".gitignore">>} ELSE {})]

Stale(path) == [path |-> path, data |-> "stale"]

\* The build directory before the first invocation: absent, or left by a
\* build of an earlier state of the source.
OldBuilds ==
    {NoTree,
     [exists |-> TRUE,
      dirs |-> {<<"build">>, <<"old">>, <<"lib">>, <<"lib", "gone">>},
      files |-> {Stale(<<"main.py">>), Stale(<<"build", "keep.txt">>),
                 Stale(<<"old", "removed.py">>), Stale(<<"lib", "gone", "x.py">>)}]}

Pkg(path) == [path |-> path, data |-> "package"]

NoPackages == [dirs |-> {}, files |-> {}]

\* What pip can have installed, as trees under lib.
VendorTrees ==
    {[dirs |-> {<<"lib", "pkg">>, <<"lib", "pkg", "tests">>,
                <<"lib", "pkg", "tests", "data">>,
                <<"lib", "pkg-1.0.dist-info">>},
      files |-> {Pkg(<<"lib", "pkg", "core.py">>),
                 Pkg(<<"lib", "pkg", "core.pyc">>),
                 Pkg(<<"lib", "pkg", "tests", "data", "case.txt">>),
                 Pkg(<<"lib", "pkg", "tests", "test_core.py">>),
                 Pkg(<<"lib", "pkg-1.0.dist-info", "RECORD">>),
                 Pkg(<<"lib", "six.py">>)}],
     [dirs |-> {<<"lib", "util">>, <<"lib", "util", "__pycache__">>,
                <<"lib", "util", "testing">>, <<"lib", "test">>},
      files |-> {Pkg(<<"lib", "util", "__pycache__", "a.pyc">>),
                 Pkg(<<"lib", "util", "testing", "a_test.py">>),
                 Pkg(<<"lib", "util", "testing", "tools.py">>),
                 Pkg(<<"lib", "util", "latest.py">>),
                 Pkg(<<"lib", "test", "conftest.py">>),
                 Pkg(<<"lib", "test_util.py">>)}]}

\* The rule lines the matcher is queried with, as load_gitignore hands them
\* to GitIgnorePattern: stripped, not empty, no comment.
RulePool ==
    {"*.log", "!important.log", "a/**/b", "foo", "/foo", "a", "/a",
     "/", "//", "!", "!/"}

\* The characters of the generated paths: a letter, the separator and the
\* line feed, which a file name can hold where the separator is "/".
PathAlphabet == {"a", "/", "\n"}

RECURSIVE StringsOfLen(_)
StringsOfLen(n) ==
    IF n = 0 THEN {""}
    ELSE {s \o c : s \in StringsOfLen(n - 1), c \in PathAlphabet}

\* The paths should_ignore is queried with, as os.path.relpath gives them.
PathPool ==
    {"foo", "a/foo", "a/foo/b", "foobar", "foo/x", "a\\foo", "run.log",
     "important.log", "other.log", "a/b", "a/x/b", "a/x/y/b"}
    \cup UNION {StringsOfLen(n) : n \in 1..MaxPathLen}

\* ------------------------------------------------------------- matches

\* The regular expressions and the relative paths of the invocations above.
KnownRegexes ==
    {GitIgnorePattern(r).regex : r \in {default_patterns[i] : i \in DOMAIN default_patterns}}
    \cup UNION {{u.regex : u \in {UserPatterns(g.lines)[i] : i \in DOMAIN UserPatterns(g.lines)}} :
                  g \in GitignoreFiles}

KnownPaths ==
    UNION {{replace(os_join(e), "\\", "/") :
              e \in t.dirs \cup t.files \cup {<<"plugin.json">>, <<".gitignore">>}} :
             t \in SourceTrees}

\* re keeps the expressions it compiled; the model keeps what regex_matches
\* gives for the expressions and paths above, and computes the rest.
MatchCache ==
    [p \in KnownPaths |-> [r \in KnownRegexes |-> regex_matches(r, p)]]

matches(self, path) ==
    IF self.regex \in KnownRegexes /\ path \in KnownPaths
    THEN MatchCache[path][self.regex]
    ELSE regex_matches(self.regex, path)

\* ------------------------------------------------------- should_ignore

\* The loop of should_ignore with a negation that assigns True as a plain
\* rule does, instead of False.
RECURSIVE IgnoreLoopNegationLost(_, _, _, _)
IgnoreLoopNegationLost(ignore_patterns, relative_path, i, is_ignored) ==
    IF i > Len(ignore_patterns) THEN is_ignored
    ELSE IF matches(ignore_patterns[i], relative_path) \/ is_ignored
         THEN IgnoreLoopNegationLost(ignore_patterns, relative_path, i + 1, TRUE)
         ELSE IgnoreLoopNegationLost(ignore_patterns, relative_path, i + 1, FALSE)

\* The loop of should_ignore from the i-th pattern on, is_ignored being the
\* running decision.
RECURSIVE IgnoreLoop(_, _, _, _)
IgnoreLoop(ignore_patterns, relative_path, i, is_ignored) ==
    IF i > Len(ignore_patterns) THEN is_ignored
    ELSE LET pattern == ignore_patterns[i]
             assigned ==
                 IF pattern.is_negation
                 THEN (IF matches(pattern, relative_path) THEN FALSE ELSE is_ignored)
                 ELSE (IF matches(pattern, relative_path) THEN TRUE ELSE is_ignored)
         IN IF assigned
            THEN IgnoreLoop(ignore_patterns, relative_path, i + 1, TRUE)
            ELSE IgnoreLoop(ignore_patterns, relative_path, i + 1, FALSE)

\* should_ignore on the path os.path.relpath gives, which joins the names
\* with the platform's separator.
should_ignore(ignore_patterns, os_relative_path) ==
    LET relative_path == replace(os_relative_path, "\\", "/")
    IN IgnoreLoop(ignore_patterns, relative_path, 1, FALSE)

\* ------------------------------------------------------------ the state

VARIABLES
    pc,              \* the statement of main the invocation is at
    runs,            \* invocations of main so far, this one included
    manifest,        \* plugin.json: [kind, keys]
    gitignore,       \* .gitignore: [exists, lines]
    src,             \* the source tree: [dirs, files], paths as name tuples
    dest,            \* the build directory: [exists, dirs, files]
    plugin_info,     \* what load_plugin_info returned
    ignore_patterns, \* PluginBuilder.ignore_patterns
    walk_stack,      \* the directories os.walk has still to yield, next first
    files_copied,    \* build_plugin's counter
    ignored_files,   \* build_plugin's counter
    log,             \* the messages logged by this invocation
    outcome,         \* how main ended: [status, error, exit_code]
    vendored,        \* what pip put under lib
    clean_pending,   \* the directories _cleanup_lib_directory has still to yield
    built,           \* the build directory as build_plugin returned it
    prev,            \* the rule set and "built" of the previous invocation
    qpath,           \* the path should_ignore was called with
    qmatch,          \* what each pattern's matches returned for it
    qresult          \* what should_ignore returned

vars ==
    <<pc, runs, manifest, gitignore, src, dest, plugin_info, ignore_patterns,
      walk_stack, files_copied, ignored_files, log, outcome, vendored,
      clean_pending, built, prev, qpath, qmatch, qresult>>

buildVars ==
    <<runs, manifest, gitignore, src, dest, plugin_info, walk_stack,
      files_copied, ignored_files, log, outcome, vendored, clean_pending,
      built, prev>>

queryVars == <<qpath, qmatch, qresult>>

None == [status |-> "none"]

Ev(ev, path) == [ev |-> ev, path |-> path]

\* ---------------------------------------------------- load_plugin_info

required_fields == {"Name", "Version"}

\* load_plugin_info without the check of the required fields.
LoadWithoutFieldCheck(m) ==
    IF m.kind \in {"missing", "malformed"}
    THEN [raised |-> "PluginConfigError"]
    ELSE [raised |-> "none", kind |-> m.kind, keys |-> m.keys]

\* What load_plugin_info does with plugin.json: the dictionary it returns, or
\* the exception it raises.  A missing file, a file that cannot be parsed and
\* a document `in` cannot be asked of all end in PluginConfigError; a JSON
\* array passes the check of the fields when it holds both names.
load_plugin_info(m) ==
    CASE m.kind = "missing" -> [raised |-> "PluginConfigError"]
      [] m.kind = "malformed" -> [raised |-> "PluginConfigError"]
      [] m.kind = "scalar" -> [raised |-> "PluginConfigError"]
      [] OTHER ->
           LET missing_fields == {f \in required_fields : f \notin m.keys}
           IN IF missing_fields # {}
              THEN [raised |-> "PluginConfigError"]
              ELSE [raised |-> "none", kind |-> m.kind, keys |-> m.keys]

\* plugin_info['Name'] and plugin_info['Version'] as main reads them.
Subscriptable(info) == info.kind = "object" /\ required_fields \subseteq info.keys

Exit(status, error, code) ==
    [status |-> status, error |-> error, exit_code |-> code]

Running == Exit("running", "none", 0)

\* main, lines 353-358, with its handlers.
LoadPluginInfo ==
    /\ pc = "load_plugin_info"
    /\ LET r == load_plugin_info(manifest)
       IN IF r.raised # "none"
          THEN /\ outcome' = Exit("error", r.raised, 1)
               /\ log' = log \cup {Ev("start", <<>>), Ev("error", <<>>)}
               /\ pc' = "exit"
               /\ UNCHANGED plugin_info
          ELSE IF ~Subscriptable(r)
          THEN /\ outcome' = Exit("critical",
                                   IF r.kind = "object" THEN "KeyError" ELSE "TypeError", 1)
               /\ log' = log \cup {Ev("start", <<>>), Ev("critical", <<>>)}
               /\ pc' = "exit"
               /\ UNCHANGED plugin_info
          ELSE /\ plugin_info' = r
               /\ log' = log \cup {Ev("start", <<>>), Ev("plugin_loaded", <<>>)}
               /\ pc' = "load_gitignore"
               /\ UNCHANGED outcome
    /\ UNCHANGED <<runs, manifest, gitignore, src, dest, ignore_patterns,
                   walk_stack, files_copied, ignored_files, vendored,
                   clean_pending, built, prev, queryVars>>

\* ------------------------------------------------------- load_gitignore

DefaultPatterns ==
    [i \in DOMAIN default_patterns |-> GitIgnorePattern(default_patterns[i])]

\* self.ignore_patterns after load_gitignore, `read` lines of the file having
\* been read when the reading ended (all of them, or those before a failure).
load_gitignore(file, read) ==
    DefaultPatterns \o
        (IF file.exists THEN UserPatterns(SubSeq(file.lines, 1, read)) ELSE <<>>)

\* load_gitignore: the file is absent, is read to its end, or the reading
\* fails at open or after any number of lines.
LoadGitignore ==
    /\ pc = "load_gitignore"
    /\ \E failed \in BOOLEAN, read \in 0..Len(gitignore.lines) :
          /\ failed => gitignore.exists
          /\ ~failed => read = Len(gitignore.lines)
          /\ ignore_patterns' = load_gitignore(gitignore, read)
          /\ log' = log \cup {IF failed THEN Ev("gitignore_warning", <<>>)
                                        ELSE Ev("patterns_loaded", <<>>)}
    /\ pc' = "build_plugin"
    /\ UNCHANGED <<runs, manifest, gitignore, src, dest, plugin_info,
                   walk_stack, files_copied, ignored_files, outcome, vendored,
                   clean_pending, built, prev, queryVars>>

\* --------------------------------------------------------- build_plugin

\* What shutil.copy2 carries over: the file's bytes and metadata.
SrcData(path) == "source"

Children(paths, dir) == {e \in paths : IsChild(e, dir)}

\* Line 322 without its filter: os.walk enters every directory.
KeptDirsUnfiltered(patterns, tree, root) == Children(tree.dirs, root)

\* Line 322: the directories of `root` that os.walk goes on to enter.
KeptDirs(patterns, tree, root) ==
    {d \in Children(tree.dirs, root) : ~should_ignore(patterns, os_join(d))}

\* Lines 324-329: the files of `root` the loop skips, and those it copies.
IgnoredFiles(patterns, tree, root) ==
    {f \in Children(tree.files, root) : should_ignore(patterns, os_join(f))}

CopiedFiles(patterns, tree, root) ==
    Children(tree.files, root) \ IgnoredFiles(patterns, tree, root)

\* Lines 312-315 without the rmtree: os.makedirs(exist_ok=True) over the old
\* build directory.
KeptBuildDir(old) == [exists |-> TRUE, dirs |-> old.dirs, files |-> old.files]

\* shutil.rmtree(plugin_build_path) when it exists, then os.makedirs.
FreshBuildDir(old) == [exists |-> TRUE, dirs |-> {}, files |-> {}]

\* Lines 331-335 for the files `copied`: the directories made, the files
\* written over whatever was at their paths.
CopyInto(tree, copied) ==
    [exists |-> tree.exists,
     dirs |-> tree.dirs \cup UNION {Ancestors(dirname(f)) : f \in copied},
     files |-> {e \in tree.files : e.path \notin copied}
               \cup {[path |-> f, data |-> SrcData(f)] : f \in copied}]

\* build_plugin, lines 306-318: the old build directory is removed, a new one
\* made, and the walk starts at the source root.
BuildPluginStart ==
    /\ pc = "build_plugin"
    /\ dest' = FreshBuildDir(dest)
    /\ log' = log \cup {Ev("build_start", <<>>)}
                  \cup (IF dest.exists THEN {Ev("remove_old", <<>>)} ELSE {})
    /\ files_copied' = 0
    /\ ignored_files' = 0
    /\ walk_stack' = << <<>> >>
    /\ pc' = "walk"
    /\ UNCHANGED <<runs, manifest, gitignore, src, plugin_info, ignore_patterns,
                   outcome, vendored, clean_pending, built, prev, queryVars>>

\* One turn of the loop of line 320: os.walk yields the next directory, its
\* ignored directories are dropped from the walk and its files are counted as
\* ignored or copied.  The listing order of the directories is the file
\* system's.
WalkStep ==
    /\ pc = "walk"
    /\ walk_stack # <<>>
    /\ LET root == Head(walk_stack)
           kept == KeptDirs(ignore_patterns, src, root)
           ignored == IgnoredFiles(ignore_patterns, src, root)
           copied == CopiedFiles(ignore_patterns, src, root)
       IN /\ \E order \in Orders(kept) : walk_stack' = order \o Tail(walk_stack)
          /\ dest' = CopyInto(dest, copied)
          /\ files_copied' = files_copied + Cardinality(copied)
          /\ ignored_files' = ignored_files + Cardinality(ignored)
          /\ log' = log \cup {Ev("ignored", f) : f \in ignored}
                        \cup {Ev("copied", f) : f \in copied}
    /\ UNCHANGED <<pc, runs, manifest, gitignore, src, plugin_info,
                   ignore_patterns, outcome, vendored, clean_pending, built,
                   prev, queryVars>>

\* A file system failure while a directory's files are copied (line 334 or
\* 335): the files copied before it stay, build_plugin raises PluginPathError
\* and main exits with status 1.
WalkFail ==
    /\ pc = "walk"
    /\ walk_stack # <<>>
    /\ LET root == Head(walk_stack)
           copied == CopiedFiles(ignore_patterns, src, root)
       IN \E f \in copied : \E before \in SUBSET (copied \ {f}) :
             /\ dest' = CopyInto(dest, before)
             /\ files_copied' = files_copied + Cardinality(before)
             /\ log' = log \cup {Ev("copied", g) : g \in before}
                           \cup {Ev("error", <<>>)}
    /\ outcome' = Exit("error", "PluginPathError", 1)
    /\ pc' = "exit"
    /\ UNCHANGED <<runs, manifest, gitignore, src, plugin_info, ignore_patterns,
                   walk_stack, ignored_files, vendored, clean_pending, built,
                   prev, queryVars>>

\* Lines 339-343: the walk is over and build_plugin returns the build path.
BuildPluginReturn ==
    /\ pc = "walk"
    /\ walk_stack = <<>>
    /\ log' = log \cup {Ev("built", <<>>)}
    /\ built' = [status |-> "built", dirs |-> dest.dirs, files |-> dest.files]
    /\ pc' = "build_dependencies"
    /\ UNCHANGED <<runs, manifest, gitignore, src, dest, plugin_info,
                   ignore_patterns, walk_stack, files_copied, ignored_files,
                   outcome, vendored, clean_pending, prev, queryVars>>

\* --------------------------------------------------- build_dependencies

requirements_path == <<"requirements.txt">>

\* self.lib_path, relative to the build directory.
lib_path == <<"lib">>

\* shutil.rmtree(path): the directory and everything under it go.
rmtree(tree, path) ==
    [exists |-> tree.exists,
     dirs |-> {d \in tree.dirs : d # path /\ ~IsUnder(d, path)},
     files |-> {e \in tree.files : ~IsUnder(e.path, path)}]

\* os.remove(path)
remove(tree, path) ==
    [exists |-> tree.exists,
     dirs |-> tree.dirs,
     files |-> {e \in tree.files : e.path # path}]

isfile(tree, path) == \E e \in tree.files : e.path = path

isdir(tree, path) == path \in tree.dirs

\* Lines 236-242: an existing lib is removed and an empty one made.
FreshLib(tree) ==
    LET cleared == IF isdir(tree, lib_path) THEN rmtree(tree, lib_path) ELSE tree
    IN [exists |-> cleared.exists,
        dirs |-> cleared.dirs \cup {lib_path},
        files |-> cleared.files]

\* pip install -t lib: the packages pip put under lib.
Install(tree, packages) ==
    [exists |-> tree.exists,
     dirs |-> tree.dirs \cup packages.dirs,
     files |-> tree.files \cup packages.files]

\* build_dependencies, lines 229-258, and main's line 366 when there is no
\* requirements.txt: without it nothing is done; with it lib is made anew and
\* pip fills it, or fails, and then PluginBuilderError reaches main.
BuildDependencies ==
    /\ pc = "build_dependencies"
    /\ IF requirements_path \notin src.files
       THEN /\ log' = log \cup {Ev("no_requirements", <<>>), Ev("success", <<>>)}
            /\ outcome' = Exit("success", "none", 0)
            /\ pc' = "exit"
            /\ UNCHANGED <<dest, vendored, clean_pending>>
       ELSE \E installed \in BOOLEAN, packages \in VendorTrees :
               IF installed
               THEN /\ dest' = Install(FreshLib(dest), packages)
                    /\ vendored' = packages
                    /\ clean_pending' = {lib_path} \cup packages.dirs
                    /\ log' = log \cup {Ev("create_lib", <<>>), Ev("installed", <<>>)}
                    /\ pc' = "cleanup"
                    /\ UNCHANGED outcome
               ELSE /\ dest' = FreshLib(dest)
                    /\ log' = log \cup {Ev("create_lib", <<>>), Ev("pip_error", <<>>),
                                        Ev("error", <<>>)}
                    /\ outcome' = Exit("error", "PluginBuilderError", 1)
                    /\ pc' = "exit"
                    /\ UNCHANGED <<vendored, clean_pending>>
    /\ UNCHANGED <<runs, manifest, gitignore, src, plugin_info, ignore_patterns,
                   walk_stack, files_copied, ignored_files, built, prev,
                   queryVars>>

\* ----------------------------------------------- _cleanup_lib_directory

patterns_to_remove ==
    <<"*.dist-info", "*.egg-info", "__pycache__", "*.pyc", "*.pyo", "*.pyd",
      ".pytest_cache", ".coverage", "htmlcov", "tests", "test", "*_test.py",
      "*_tests.py", "test_*.py">>

\* fnmatch of a name against a pattern with "*" and "?" (the patterns above
\* hold no "["), both in the case os.path.normcase leaves them in.
RECURSIVE GlobAccepts(_, _, _, _)
GlobAccepts(pat, name, i, j) ==
    IF i > Len(pat) THEN j = Len(name) + 1
    ELSE LET c == Ch(pat, i)
         IN CASE c = "*" ->
                   \/ GlobAccepts(pat, name, i + 1, j)
                   \/ j <= Len(name) /\ GlobAccepts(pat, name, i, j + 1)
              [] c = "?" -> j <= Len(name) /\ GlobAccepts(pat, name, i + 1, j + 1)
              [] OTHER ->
                   /\ j <= Len(name)
                   /\ Ch(name, j) = c
                   /\ GlobAccepts(pat, name, i + 1, j + 1)

fnmatch(name, pat) == GlobAccepts(pat, name, 1, 1)

basename(path) == path[Len(path)]

\* fnmatch.filter(files + dirs, pattern) for the entries `items` of one
\* directory.
fnmatch_filter(items, pattern) == {e \in items : fnmatch(basename(e), pattern)}

\* Lines 293-299 without the elif: files are removed, directories are left.
RemoveFilesOnly(tree, items) ==
    [exists |-> tree.exists,
     dirs |-> tree.dirs,
     files |-> {f \in tree.files : f.path \notin items}]

\* Lines 293-299 for the items one pattern selected: a file is removed, a
\* directory is removed with its subtree, what is no longer there is left.
RemoveItems(tree, items) ==
    [exists |-> tree.exists,
     dirs |-> {d \in tree.dirs :
                 \A e \in items : isdir(tree, e) => (d # e /\ ~IsUnder(d, e))},
     files |-> {f \in tree.files :
                 \A e \in items :
                    /\ isfile(tree, e) => f.path # e
                    /\ (~isfile(tree, e) /\ isdir(tree, e)) => ~IsUnder(f.path, e)}]

\* The loop of line 291 over the patterns from the i-th on, for the entries
\* `items` os.walk listed in one directory.
RECURSIVE CleanLoop(_, _, _)
CleanLoop(tree, items, i) ==
    IF i > Len(patterns_to_remove) THEN tree
    ELSE CleanLoop(RemoveItems(tree, fnmatch_filter(items, patterns_to_remove[i])),
                   items, i + 1)

\* What os.walk listed in directory `root`: its files and directories.
Listing(tree, root) ==
    Children({e.path : e \in tree.files}, root) \cup Children(tree.dirs, root)

\* os.walk(lib, topdown=False) yields a directory after the directories
\* under it.
NextToClean(pending) == {d \in pending : \A e \in pending : ~IsUnder(e, d)}

Gone(before, after, items) ==
    {e \in items : (isfile(before, e) \/ isdir(before, e))
                   /\ ~isfile(after, e) /\ ~isdir(after, e)}

\* One turn of the loop of line 289.
CleanStep ==
    /\ pc = "cleanup"
    /\ \E root \in NextToClean(clean_pending) :
          LET items == Listing(dest, root)
              after == CleanLoop(dest, items, 1)
          IN /\ dest' = after
             /\ log' = log \cup {Ev("removed", e) : e \in Gone(dest, after, items)}
             /\ clean_pending' = clean_pending \ {root}
    /\ UNCHANGED <<pc, runs, manifest, gitignore, src, plugin_info,
                   ignore_patterns, walk_stack, files_copied, ignored_files,
                   outcome, vendored, built, prev, queryVars>>

\* A removal fails: lines 301-302 log a warning, the rest of lib is left as
\* it is, build_dependencies returns and main ends in success.
CleanFail ==
    /\ pc = "cleanup"
    /\ \E root \in NextToClean(clean_pending) :
          LET items == Listing(dest, root)
              hit == UNION {fnmatch_filter(items, patterns_to_remove[i]) :
                              i \in DOMAIN patterns_to_remove}
          IN \E f \in hit : \E before \in SUBSET (hit \ {f}) :
                LET after == RemoveItems(dest, before)
                IN /\ dest' = after
                   /\ log' = log \cup {Ev("removed", e) : e \in before}
                                 \cup {Ev("cleanup_warning", <<>>), Ev("success", <<>>)}
    /\ clean_pending' = {}
    /\ outcome' = Exit("success", "none", 0)
    /\ pc' = "exit"
    /\ UNCHANGED <<runs, manifest, gitignore, src, plugin_info, ignore_patterns,
                   walk_stack, files_copied, ignored_files, vendored, built,
                   prev, queryVars>>

\* The walk is over: _cleanup_lib_directory and build_dependencies return,
\* main logs the success (line 366).
CleanReturn ==
    /\ pc = "cleanup"
    /\ clean_pending = {}
    /\ log' = log \cup {Ev("success", <<>>)}
    /\ outcome' = Exit("success", "none", 0)
    /\ pc' = "exit"
    /\ UNCHANGED <<runs, manifest, gitignore, src, dest, plugin_info,
                   ignore_patterns, walk_stack, files_copied, ignored_files,
                   vendored, clean_pending, built, prev, queryVars>>

\* ----------------------------------------------------------------- main

\* main is run again on the same source tree, as a new process with a new
\* PluginBuilder; the build directory is as the invocation before left it.
Rerun ==
    /\ pc = "exit"
    /\ outcome.status = "success"
    /\ runs < MaxRuns
    /\ runs' = runs + 1
    /\ pc' = "load_plugin_info"
    /\ plugin_info' = None
    /\ ignore_patterns' = <<>>
    /\ walk_stack' = <<>>
    /\ files_copied' = 0
    /\ ignored_files' = 0
    /\ log' = {}
    /\ outcome' = Running
    /\ vendored' = NoPackages
    /\ clean_pending' = {}
    /\ prev' = [status |-> "built", patterns |-> ignore_patterns,
                dirs |-> built.dirs, files |-> built.files]
    /\ built' = None
    /\ UNCHANGED <<manifest, gitignore, src, dest, queryVars>>

InitCommon ==
    /\ runs = 1
    /\ plugin_info = None
    /\ ignore_patterns = <<>>
    /\ walk_stack = <<>>
    /\ files_copied = 0
    /\ ignored_files = 0
    /\ log = {}
    /\ outcome = Running
    /\ vendored = NoPackages
    /\ clean_pending = {}
    /\ built = None
    /\ prev = None
    /\ qpath = ""
    /\ qmatch = <<>>
    /\ qresult = FALSE

Init ==
    /\ pc = "load_plugin_info"
    /\ manifest \in Manifests
    /\ gitignore \in GitignoreFiles
    /\ \E base \in SourceTrees : src = SourceOf(base, manifest, gitignore)
    /\ dest \in OldBuilds
    /\ InitCommon

Next ==
    \/ LoadPluginInfo
    \/ LoadGitignore
    \/ BuildPluginStart
    \/ WalkStep
    \/ WalkFail
    \/ BuildPluginReturn
    \/ BuildDependencies
    \/ CleanStep
    \/ CleanFail
    \/ CleanReturn
    \/ Rerun

Spec == Init /\ [][Next]_vars

\* ---------------------------------------------------- the matcher alone

\* should_ignore and matches as functions: a rule list is built line by
\* line, as line 202 appends them, and should_ignore is called on a path.
InitMatch ==
    /\ pc = "rules"
    /\ manifest = [kind |-> "missing", keys |-> {}]
    /\ gitignore = NoGitignore
    /\ src = [dirs |-> {}, files |-> {}]
    /\ dest = NoTree
    /\ InitCommon

AddRule ==
    /\ pc = "rules"
    /\ Len(ignore_patterns) < MaxRules
    /\ \E line \in RulePool :
          ignore_patterns' = Append(ignore_patterns, GitIgnorePattern(line))
    /\ UNCHANGED <<pc, buildVars, queryVars>>

Query ==
    /\ pc = "rules"
    /\ \E path \in PathPool :
          /\ qpath' = path
          /\ qmatch' = [i \in DOMAIN ignore_patterns |->
                          matches(ignore_patterns[i], replace(path, "\\", "/"))]
          /\ qresult' = should_ignore(ignore_patterns, path)
    /\ pc' = "queried"
    /\ UNCHANGED <<ignore_patterns, buildVars>>

NextMatch == AddRule \/ Query

SpecMatch == InitMatch /\ [][NextMatch]_vars

\* ------------------------------------------------------------ properties

Patterns == {ignore_patterns[i] : i \in DOMAIN ignore_patterns}

RawRules == [i \in DOMAIN ignore_patterns |-> ignore_patterns[i].pattern]

\* The patterns whose matches accepted the queried path.
Accepting == {i \in DOMAIN qmatch : qmatch[i]}

Last(S) == CHOOSE i \in S : \A k \in S : k <= i

\* C1: should_ignore returns false when no rule's matcher accepts the path,
\* and otherwise true exactly when the last rule in list order whose matcher
\* accepts it is not a negation; with the rules "*.log", "!important.log" the
\* file important.log is included and other.log is excluded.
C1_LastMatchingRuleWins ==
    pc = "queried" =>
        /\ qresult = (Accepting # {} /\ ~ignore_patterns[Last(Accepting)].is_negation)
        /\ RawRules = <<"*.log", "!important.log">> =>
              /\ qpath = "important.log" => ~qresult
              /\ qpath = "other.log" => qresult

\* C1's case: a negation that comes after an exclusion re-includes the file.
C1_Witness ==
    /\ pc = "queried"
    /\ RawRules = <<"*.log", "!important.log">>
    /\ qpath = "important.log"
    /\ Accepting = {1, 2}
    /\ ~qresult

\* The components of a relative path.
RECURSIVE Split(_)
Split(path) ==
    IF \A i \in 1..Len(path) : Ch(path, i) # "/" THEN <<path>>
    ELSE LET cut == CHOOSE i \in 1..Len(path) :
                      /\ Ch(path, i) = "/"
                      /\ \A k \in 1..(i - 1) : Ch(path, k) # "/"
         IN <<SubSeq(path, 1, cut - 1)>> \o Split(SubSeq(path, cut + 1, Len(path)))

Components(path) == {Split(path)[i] : i \in DOMAIN Split(path)}

\* A relative path in forward slashes with no leading slash.
IsNormalized(path) ==
    /\ ~startswith(path, "/")
    /\ \A i \in 1..Len(path) : Ch(path, i) # "\\"

\* A rule body that is one name without wildcards.
IsPlainName(name) ==
    /\ name # ""
    /\ \A i \in 1..Len(name) : Ch(name, i) \notin {"/", "*", "?", "!", "\\", "#"} \cup Whitespace

\* C6: the matcher compiled from "a/**/b" accepts "a/b", "a/x/b" and
\* "a/x/y/b".
C6_DoubleStarSpansZeroDirectories ==
    pc = "queried" =>
        \A i \in DOMAIN ignore_patterns :
            (ignore_patterns[i].pattern = "a/**/b"
                /\ qpath \in {"a/b", "a/x/b", "a/x/y/b"}) => qmatch[i]

\* C7: for a wildcard-free single-name rule n and every normalized relative
\* path p, the rule "n" accepts p exactly when some component of p equals n,
\* and the rule "/n" accepts p exactly when the first component of p equals n.
C7_NameRuleMatchesComponents ==
    (pc = "queried" /\ IsNormalized(qpath)) =>
        \A i \in DOMAIN ignore_patterns :
            LET rule == ignore_patterns[i].pattern
            IN /\ IsPlainName(rule) => (qmatch[i] <=> rule \in Components(qpath))
               /\ (startswith(rule, "/") /\ IsPlainName(Tail(rule))) =>
                     (qmatch[i] <=> Split(qpath)[1] = Tail(rule))

\* The rule lines whose body is empty once "!" and the trailing "/" are gone.
EmptyBodyRules == {"/", "//", "!", "!/"}

\* C10: a rule whose body is empty compiles to a matcher that accepts every
\* relative path; when no later rule accepts the path, a plain such rule
\* excludes it and a negated one re-includes it.
C10_EmptyBodyAcceptsEverything ==
    pc = "queried" =>
        \A i \in DOMAIN ignore_patterns :
            ignore_patterns[i].pattern \in EmptyBodyRules =>
                /\ qmatch[i]
                /\ (\A k \in DOMAIN ignore_patterns : k > i => ~qmatch[k]) =>
                      (qresult <=> ~ignore_patterns[i].is_negation)

\* C10's case: "!" re-includes a file an earlier rule excluded, and "/"
\* excludes a path no other rule names.
C10_Witness ==
    /\ pc = "queried"
    /\ RawRules = <<"*.log", "!">>
    /\ qpath = "other.log"
    /\ qmatch = <<TRUE, TRUE>>
    /\ ~qresult

\* A file of the source is under a directory the rule set excludes.
UnderIgnoredDir(path) ==
    \E k \in 1..(Len(path) - 1) :
        should_ignore(ignore_patterns, os_join(SubSeq(path, 1, k)))

\* A file the rule set does not exclude, under no excluded directory.
Included(path) ==
    /\ ~should_ignore(ignore_patterns, os_join(path))
    /\ ~UnderIgnoredDir(path)

Logged(ev) == {e.path : e \in {x \in log : x.ev = ev}}

\* C2: during build_plugin's traversal no file beneath an excluded directory
\* is copied to the destination or counted as copied or as ignored, also when
\* a later negation rule matches the file's own path.
C2_PrunedDirectoriesNeverEntered ==
    /\ files_copied = Cardinality(Logged("copied"))
    /\ ignored_files = Cardinality(Logged("ignored"))
    /\ \A f \in src.files :
          UnderIgnoredDir(f) =>
             /\ f \notin Logged("copied")
             /\ f \notin Logged("ignored")
             /\ pc \in {"walk", "build_dependencies"} => ~isfile(dest, f)

\* C2's case: build/keep.txt, which "!build/keep.txt" re-includes, lies under
\* the excluded build/ and the finished walk has not copied it.
C2_Witness ==
    /\ pc = "build_dependencies"
    /\ \E f \in src.files :
          /\ UnderIgnoredDir(f)
          /\ ~should_ignore(ignore_patterns, os_join(f))
          /\ ~isfile(dest, f)
    /\ files_copied > 0
    /\ ignored_files > 0

ExpectedFiles == {[path |-> f, data |-> SrcData(f)] : f \in {g \in src.files : Included(g)}}

ExpectedDirs == UNION {Ancestors(dirname(e.path)) : e \in ExpectedFiles}

\* C3: after a successful build_plugin the destination holds exactly the
\* files that are not excluded and have no excluded ancestor, at mirrored
\* paths, and nothing of its earlier contents; two successive builds of an
\* unchanged source under the same rule set yield identical trees.
C3_DestinationDeterminedBySource ==
    pc = "build_dependencies" =>
        /\ dest.exists
        /\ dest.files = ExpectedFiles
        /\ dest.dirs = ExpectedDirs
        /\ (prev.status = "built" /\ prev.patterns = ignore_patterns) =>
              (dest.files = prev.files /\ dest.dirs = prev.dirs)

\* C3's case: the second build of a source with requirements.txt, whose
\* first build left a vendored lib and its copies in the destination.
C3_Witness ==
    /\ pc = "build_dependencies"
    /\ runs = 2
    /\ prev.status = "built"
    /\ prev.patterns = ignore_patterns
    /\ requirements_path \in src.files
    /\ dest.files # {}
    /\ \E f \in src.files : ~Included(f)

\* C4: whenever the whole invocation ends in success the destination exists
\* and holds every source file that is not excluded and has no excluded
\* ancestor at its mirrored path, also when requirements.txt exists.
C4_SuccessMeansFullyPopulated ==
    (pc = "exit" /\ outcome.status = "success") =>
        /\ dest.exists
        /\ \A f \in src.files :
              Included(f) => [path |-> f, data |-> SrcData(f)] \in dest.files

\* The manifest is missing, cannot be parsed, or lacks Name or Version.
BadManifest ==
    \/ manifest.kind \in {"missing", "malformed"}
    \/ ~(required_fields \subseteq manifest.keys)

C8_ReadFailureLeavesDefaultsOnly ==
    (pc = "build_plugin" /\ (~gitignore.exists \/ Ev("gitignore_warning", <<>>) \in log)) =>
        ignore_patterns = DefaultPatterns

\* A name matches one of the cleanup patterns.
MatchesCleanup(name) ==
    \E i \in DOMAIN patterns_to_remove : fnmatch(name, patterns_to_remove[i])

\* No name of the path below lib matches a cleanup pattern.
CleanPath(path) ==
    \A k \in (Len(lib_path) + 1)..Len(path) : ~MatchesCleanup(path[k])

\* C9: after _cleanup_lib_directory ran without a failure the entries left
\* under lib are exactly those whose own name and whose ancestors' names
\* below lib match no cleanup pattern; a directory is removed only after the
\* directories under it were walked.
C9_CleanupRemovesExactlyTheMatches ==
    /\ (pc = "exit" /\ outcome.status = "success" /\ vendored # NoPackages
          /\ Ev("cleanup_warning", <<>>) \notin log) =>
          /\ {e \in dest.files : IsUnder(e.path, lib_path)}
                = {e \in vendored.files : CleanPath(e.path)}
          /\ {d \in dest.dirs : IsUnder(d, lib_path)}
                = {d \in vendored.dirs : CleanPath(d)}
          /\ lib_path \in dest.dirs
    /\ pc = "cleanup" =>
          \A d \in vendored.dirs :
              d \notin dest.dirs =>
                 \A sub \in vendored.dirs : IsUnder(sub, d) => sub \notin clean_pending

\* C9's case: tests/ went with the file under its data/ directory, the
\* .dist-info directory and the bytecode went, core.py and six.py stayed.
C9_Witness ==
    /\ pc = "exit"
    /\ outcome.status = "success"
    /\ Ev("cleanup_warning", <<>>) \notin log
    /\ Pkg(<<"lib", "pkg", "tests", "data", "case.txt">>) \in vendored.files
    /\ ~isfile(dest, <<"lib", "pkg", "tests", "data", "case.txt">>)
    /\ ~isdir(dest, <<"lib", "pkg-1.0.dist-info">>)
    /\ ~isfile(dest, <<"lib", "pkg", "core.pyc">>)
    /\ isfile(dest, <<"lib", "pkg", "core.py">>)
    /\ isfile(dest, <<"lib", "six.py">>)
====
